---- MODULE Spec2Model ----
(***************************************************************************)
(* A model of emmet/abbreviation/convert.py: the conversion of a token     *)
(* based abbreviation (TokenGroup / TokenElement / TokenAttribute) into    *)
(* the unrolled node based abbreviation (Abbreviation / AbbreviationNode / *)
(* AbbreviationAttribute).                                                 *)
(*                                                                         *)
(* The recursion convert_group -> convert_statement -> convert_element is  *)
(* an explicit call stack of frames; Python objects that are shared by     *)
(* reference (output nodes, Repeater objects) live in heaps and are named  *)
(* by their index, so aliasing is visible.  Python strings are sequences   *)
(* of one-character strings, None is the empty tuple and a present value   *)
(* x is <<x>>.                                                             *)
(***************************************************************************)
EXTENDS Integers, Sequences, FiniteSets, TLC

----------------------------------------------------------------------------
(* Optional values: Python's None against a present value. *)

None == <<>>

Some(x) == <<x>>

IsNone(o) == o = <<>>

Get(o) == o[1]

Last(s) == s[Len(s)]

Front(s) == SubSeq(s, 1, Len(s) - 1)

Max(a, b) == IF a >= b THEN a ELSE b

Min(a, b) == IF a <= b THEN a ELSE b

RECURSIVE Flatten(_)
(* ''.join(list) for a list of strings. *)
Flatten(ss) == IF ss = <<>> THEN <<>> ELSE Head(ss) \o Flatten(Tail(ss))

RECURSIVE JoinLines(_)
(* '\n'.join(list) *)
JoinLines(ss) ==
  IF ss = <<>> THEN <<>>
  ELSE IF Len(ss) = 1 THEN ss[1]
  ELSE ss[1] \o <<"\n">> \o JoinLines(Tail(ss))

----------------------------------------------------------------------------
(* Tokens, as the tokenizer hands them to convert.  All tokens carry the   *)
(* same fields so that any two can be compared.                            *)

Token(type, value, index, single, open, context) ==
  [type |-> type, value |-> value, index |-> index, single |-> single,
   open |-> open, context |-> context]

Literal(value) == Token("Literal", value, None, FALSE, FALSE, "")

Field(index, name) == Token("Field", name, index, FALSE, FALSE, "")

RepeaterPlaceholder == Token("RepeaterPlaceholder", <<>>, None, FALSE, FALSE, "")

Quote(single) == Token("Quote", <<>>, None, single, FALSE, "")

Bracket(context, open) == Token("Bracket", <<>>, None, FALSE, open, context)

is_quote(token) == token.type = "Quote"

is_bracket(token, context, is_open) ==
  token.type = "Bracket" /\ token.context = context /\ token.open = is_open

is_field(token) == token.type = "Field" /\ ~IsNone(token.index)

(* tokens.Repeater(count, value, implicit); count is None or an int. *)
Repeater(count, value, implicit) ==
  [count |-> count, value |-> value, implicit |-> implicit]

(* Python truth of repeat.count: None and 0 are false. *)
Truthy(count) == ~IsNone(count) /\ Get(count) # 0

----------------------------------------------------------------------------
(* The input tree, as the parser hands it to convert.  abbr[1] is the root *)
(* TokenGroup; node.elements holds indices into abbr.  node.repeat is the  *)
(* mutable field convert_statement assigns to: it lives in node_repeat.    *)

TokenAttribute(name, value, expression) ==
  [name |-> name, value |-> value, expression |-> expression]

TokenElement(name, value, attributes, self_close) ==
  [kind |-> "element", name |-> name, value |-> value,
   attributes |-> attributes, self_close |-> self_close]

TokenGroup ==
  [kind |-> "group", name |-> <<>>, value |-> <<>>, attributes |-> <<>>,
   self_close |-> FALSE]

is_group(node) == node.kind = "group"

----------------------------------------------------------------------------
(* Bounds of the inputs that are explored. *)

(* Explicit repeat counts range over None, -1, 0 and 1..MaxCount. *)
MaxCount == 3

(* options['max_repeat'] is absent, in 1..MaxGuard, or AmpleGuard. *)
MaxGuard == 2

(* A max_repeat that no explored input exhausts. *)
AmpleGuard == 100

(* options['text'], when a list, has 0..MaxText lines. *)
MaxText == 2

(* ConvertState.__init__'s default for max_repeat. *)
DefaultMaxRepeat == 1000000

(* The lines of a text list: "l1", "l2", ... *)
Line(i) == <<"l", CASE i = 1 -> "1" [] i = 2 -> "2" [] i = 3 -> "3" [] OTHER -> "n">>

TextNone == [t |-> "none", s |-> <<>>, l |-> <<>>]

TextStr(s) == [t |-> "str", s |-> s, l |-> <<>>]

TextList(l) == [t |-> "list", s |-> <<>>, l |-> l]

Texts ==
  {TextNone, TextStr(<<"w">>)} \cup {TextList([i \in 1..m |-> Line(i)]) : m \in 0..MaxText}

(* options.get('max_repeat'): None when the key is absent. *)
MaxRepeats == {None, Some(AmpleGuard)} \cup {Some(g) : g \in 1..MaxGuard}

Options == [text : Texts, max_repeat : MaxRepeats]

(* Repeat metadata a statement can carry: none, explicit `*N` with count   *)
(* None, -1, 0, 1..MaxCount, or implicit `*` (the tokenizer's count 1).    *)
Counts == {None, Some(-1), Some(0)} \cup {Some(c) : c \in 1..MaxCount}

AllRepeats ==
  {None} \cup {Some(Repeater(c, 0, FALSE)) : c \in Counts}
         \cup {Some(Repeater(Some(1), 0, TRUE))}

SomeRepeats ==
  {None, Some(Repeater(Some(2), 0, FALSE)), Some(Repeater(Some(1), 0, TRUE))}

NameA == <<Literal(<<"a">>)>>

ValueT == <<Literal(<<"t">>)>>

ValueF == <<Field(Some(1), <<>>)>>

ValueP == <<RepeaterPlaceholder>>

(* The attribute x="v" *)
AttrX ==
  <<TokenAttribute(<<Literal(<<"x">>)>>,
                   <<Quote(FALSE), Literal(<<"v">>), Quote(FALSE)>>, FALSE)>>

(* A group and the element `a` carry every repeat; the elements {t}, a{t}, *)
(* {${1}}, a{$#}, {t}[x] and the empty element carry some.                 *)
Labels ==
  {[node |-> n, repeat |-> r] :
     n \in {TokenGroup, TokenElement(NameA, <<>>, <<>>, FALSE)}, r \in AllRepeats}
  \cup
  {[node |-> n, repeat |-> r] :
     n \in {TokenElement(<<>>, ValueT, <<>>, FALSE),
            TokenElement(NameA, ValueT, <<>>, FALSE),
            TokenElement(<<>>, ValueF, <<>>, FALSE),
            TokenElement(NameA, ValueP, <<>>, FALSE),
            TokenElement(<<>>, ValueT, AttrX, FALSE),
            TokenElement(<<>>, <<>>, <<>>, FALSE)},
     r \in SomeRepeats}

(* Shapes of the input: shape[j] is the parent of statement j+1, the root  *)
(* being node 1: no statement, one, two siblings, parent and child.        *)
Shapes == {<<>>, <<1>>, <<1, 1>>, <<1, 2>>}

RECURSIVE ElementsFrom(_, _, _)
ElementsFrom(shape, parent, j) ==
  IF j > Len(shape) THEN <<>>
  ELSE (IF shape[j] = parent THEN <<j + 1>> ELSE <<>>)
       \o ElementsFrom(shape, parent, j + 1)

(* node.elements of node i. *)
Elements(shape, i) == ElementsFrom(shape, i, 1)

(* A repeated parent with two children: (x+y)*2, (x+y)* and a*2>x+y, where *)
(* x and y are a, a*2 or {t}.                                              *)
ParentLabels ==
  {[node |-> TokenGroup, repeat |-> Some(Repeater(Some(2), 0, FALSE))],
   [node |-> TokenGroup, repeat |-> Some(Repeater(Some(1), 0, TRUE))],
   [node |-> TokenElement(NameA, <<>>, <<>>, FALSE),
    repeat |-> Some(Repeater(Some(2), 0, FALSE))]}

ChildLabels ==
  {[node |-> TokenElement(NameA, <<>>, <<>>, FALSE), repeat |-> None],
   [node |-> TokenElement(NameA, <<>>, <<>>, FALSE),
    repeat |-> Some(Repeater(Some(2), 0, FALSE))],
   [node |-> TokenElement(<<>>, ValueT, <<>>, FALSE), repeat |-> None]}

Families ==
  {[shape |-> <<1, 2, 2>>, labels |-> <<p, x, y>>] :
     p \in ParentLabels, x \in ChildLabels, y \in ChildLabels}

Inputs ==
  UNION {{[shape |-> sh, labels |-> ls] : ls \in [1..Len(sh) -> Labels]} : sh \in Shapes}
  \cup Families

----------------------------------------------------------------------------
VARIABLES
  abbr,         \* the input tree: node index -> token node (with .elements)
  options,      \* the options dict: text and options.get('max_repeat')
  node_repeat,  \* node index -> its .repeat: an index into rheap, 0 for None
  rheap,        \* the Repeater objects, by identity
  state,        \* the ConvertState
  nodes,        \* the AbbreviationNode objects, by identity
  result,       \* Abbreviation.children of the result: node identities
  stack,        \* the call stack of convert_group/_statement/_element
  ret,          \* the list the last returning call returned
  phase,        \* "new", "running", "done" (returned) or "raised"
  exc,          \* the exception convert raised, "" when none
  log,          \* history: one record per activation of a repeated statement
  hist,         \* history: what the conversion did with the text
  attr_node,    \* the TokenAttribute convert_attribute is applied to
  attr_out,     \* the AbbreviationAttribute it returned, None before
  value_tokens,   \* the token list stringify_value is applied to
  value_out     \* the value list it returned, None before

cvars ==
  <<abbr, options, node_repeat, rheap, state, nodes, result, stack, ret,
    phase, exc, log, hist>>

avars == <<attr_node, attr_out, value_tokens, value_out>>

vars == <<cvars, avars>>

----------------------------------------------------------------------------
(* ConvertState *)

ConvertState(text, max_repeat) ==
  [inserted |-> FALSE, text |-> text, repeat_guard |-> max_repeat,
   repeaters |-> <<>>, text_inserted |-> FALSE]

(* The value ConvertState.get_text(pos) returns; pos is None or <<int>>. *)
get_text_value(text, pos) ==
  IF text.t = "list"
  THEN (IF ~IsNone(pos) THEN text.l[Get(pos) + 1] ELSE JoinLines(text.l))
  ELSE text.s

(* A get_text that does not record the read. *)
get_text_state_silent(st) == st

(* The state after ConvertState.get_text. *)
get_text_state(st) == [st EXCEPT !.text_inserted = TRUE]

----------------------------------------------------------------------------
(* stringify(token, state) of the stringify module. *)

RECURSIVE ClosestImplicit(_, _, _)
(* The value of the innermost implicit repeater of state.repeaters, or None. *)
ClosestImplicit(rh, repeaters, j) ==
  IF j = 0 THEN None
  ELSE IF rh[repeaters[j]].implicit THEN Some(rh[repeaters[j]].value)
  ELSE ClosestImplicit(rh, repeaters, j - 1)

Digit(n) ==
  CASE n = 0 -> "0" [] n = 1 -> "1" [] n = 2 -> "2" [] n = 3 -> "3" [] OTHER -> "9"

stringify(token, st, rh) ==
  CASE token.type = "Literal" -> token.value
    [] token.type = "RepeaterPlaceholder" ->
         get_text_value(st.text, ClosestImplicit(rh, st.repeaters, Len(st.repeaters)))
    [] token.type = "Quote" -> IF token.single THEN <<"'">> ELSE <<"\"">>
    [] token.type = "Bracket" /\ token.context = "expression" ->
         IF token.open THEN <<"{">> ELSE <<"}">>
    [] token.type = "Bracket" /\ token.context # "expression" ->
         IF token.open THEN <<"(">> ELSE <<")">>
    [] token.type = "Field" /\ ~IsNone(token.index) ->
         <<"$", "{", Digit(Get(token.index))>> \o
         (IF token.value = <<>> THEN <<>> ELSE <<":">> \o token.value) \o <<"}">>
    [] token.type = "Field" /\ IsNone(token.index) ->
         \* state.get_variable(name) of a name that is no variable
         token.value

(* Rendering a repeater placeholder sets state.inserted and reads the text. *)
IsPlaceholder(token) == token.type = "RepeaterPlaceholder"

stringify_state(token, st) ==
  IF IsPlaceholder(token)
  THEN get_text_state([st EXCEPT !.inserted = TRUE])
  ELSE st

RECURSIVE stringify_all_state(_, _)
(* The state after stringify was called on every token of the list. *)
stringify_all_state(tokens, st) ==
  IF tokens = <<>> THEN st
  ELSE stringify_all_state(Tail(tokens), stringify_state(Head(tokens), st))

stringify_name(tokens, st, rh) ==
  Flatten([j \in 1..Len(tokens) |-> stringify(tokens[j], st, rh)])

(* Segments of an output value: a str or a kept Field token. *)
StrSeg(s) == [kind |-> "str", str |-> s, index |-> None]

FieldSeg(token) == [kind |-> "field", str |-> token.value, index |-> token.index]

RECURSIVE stringify_value_from(_, _, _, _, _, _)
stringify_value_from(token_list, j, res, accum, st, rh) ==
  IF j > Len(token_list)
  THEN (IF accum # <<>> THEN Append(res, StrSeg(Flatten(accum))) ELSE res)
  ELSE IF is_field(token_list[j])
       THEN stringify_value_from(
              token_list, j + 1,
              Append(IF accum # <<>> THEN Append(res, StrSeg(Flatten(accum))) ELSE res,
                     FieldSeg(token_list[j])),
              <<>>, st, rh)
       ELSE stringify_value_from(
              token_list, j + 1, res,
              Append(accum, stringify(token_list[j], st, rh)), st, rh)

stringify_value(token_list, st, rh) ==
  stringify_value_from(token_list, 1, <<>>, <<>>, st, rh)

RECURSIVE NonFields(_)
(* The tokens stringify_value hands to stringify. *)
NonFields(token_list) ==
  IF token_list = <<>> THEN <<>>
  ELSE (IF is_field(Head(token_list)) THEN <<>> ELSE <<Head(token_list)>>)
       \o NonFields(Tail(token_list))

stringify_value_state(token_list, st) == stringify_all_state(NonFields(token_list), st)

----------------------------------------------------------------------------
(* Repeater objects and output nodes *)

(* clone_repeater: a new Repeater object with the fields of rh[r]. *)
clone_repeater(rh, r) ==
  [rheap |-> Append(rh, Repeater(rh[r].count, rh[r].value, rh[r].implicit)),
   ref |-> Len(rh) + 1]

(* The count convert_statement gives its working clone. *)
repeat_count(repeat, text) ==
  IF repeat.implicit /\ text.t = "list"
  THEN Some(Len(text.l))
  ELSE (IF Truthy(repeat.count) THEN repeat.count ELSE Some(1))

(* A convert_statement that sets state.inserted only if the loop ran. *)
inserted_after_ran(repeat, inserted) ==
  IF repeat.implicit /\ Get(repeat.count) > 0 THEN TRUE ELSE inserted

(* A convert_statement that leaves state.inserted as the loop left it. *)
inserted_after_loop(repeat, inserted) == inserted

(* `if repeat.implicit: state.inserted = True` *)
inserted_after(repeat, inserted) == IF repeat.implicit THEN TRUE ELSE inserted

(* A loop that does not count its iterations. *)
guard_after_same(guard) == guard

(* `state.repeat_guard -= 1` *)
guard_after(guard) == guard - 1

(* A convert_statement that forgets `state.repeaters.pop()`. *)
repeaters_kept(repeaters) == repeaters

(* `state.repeaters.pop()` *)
repeaters_pop(repeaters) == SubSeq(repeaters, 1, Len(repeaters) - 1)

(* A convert_statement that leaves the working clone on the node. *)
repeat_left(original, repeat) == repeat

(* `node.repeat = original` *)
repeat_restored(original, repeat) == original

(* A guard that breaks one iteration late: `< 0` for `<= 0`. *)
guard_break_late(guard) == guard < 0

(* `if state.repeat_guard <= 0: break` *)
guard_break(guard) == guard <= 0

(* An AbbreviationNode that keeps node.repeat itself instead of a clone. *)
node_snapshot_alias(rh, r) == [rheap |-> rh, ref |-> r]

(* AbbreviationNode.repeat: clone_repeater(node.repeat) if node.repeat else None *)
node_snapshot(rh, r) ==
  IF r # 0 THEN clone_repeater(rh, r) ELSE [rheap |-> rh, ref |-> 0]

(* AbbreviationNode.__init__, but for .repeat *)
AbbreviationNode(node, st, rh) ==
  LET st1 == stringify_all_state(node.name, st)
  IN [name |-> IF node.name # <<>> THEN Some(stringify_name(node.name, st, rh)) ELSE None,
      value |-> IF node.value # <<>> THEN Some(stringify_value(node.value, st1, rh)) ELSE None,
      attributes |-> None,
      children |-> <<>>,
      repeat |-> 0,
      self_closing |-> node.self_close]

(* The state after AbbreviationNode.__init__ rendered name and value. *)
AbbreviationNode_state(node, st) ==
  stringify_value_state(node.value, stringify_all_state(node.name, st))

(* Python truth of a value or attribute list: not None and not empty. *)
NonEmpty(o) == ~IsNone(o) /\ Get(o) # <<>>

some_is_field(value) == \E j \in 1..Len(value) : value[j].kind = "field"

RECURSIVE deepest_node(_, _)
deepest_node(ns, n) ==
  IF ns[n].children # <<>> THEN deepest_node(ns, Last(ns[n].children)) ELSE n

(* An insert_text that always adds a segment of its own. *)
insert_text_append(value, text) ==
  Some((IF IsNone(value) THEN <<>> ELSE Get(value)) \o <<StrSeg(text)>>)

(* insert_text: the value of the node afterwards. *)
insert_text(value, text) ==
  IF NonEmpty(value)
  THEN LET v == Get(value)
           last_token == Last(v)
       IN IF last_token.kind = "str"
          THEN Some([v EXCEPT ![Len(v)] = StrSeg(last_token.str \o text)])
          ELSE Some(Append(v, StrSeg(text)))
  ELSE Some(<<StrSeg(text)>>)

RECURSIVE attach_repeater_from(_, _, _, _, _)
(* attach_repeater: the node and Repeater heaps after the loop from item j. *)
attach_repeater_from(items, j, ns, rh, repeater) ==
  IF j > Len(items) THEN [nodes |-> ns, rheap |-> rh]
  ELSE IF ns[items[j]].repeat = 0
       THEN LET c == clone_repeater(rh, repeater)
            IN attach_repeater_from(items, j + 1,
                 [ns EXCEPT ![items[j]].repeat = c.ref], c.rheap, repeater)
       ELSE attach_repeater_from(items, j + 1, ns, rh, repeater)

(* An attach_repeater that hands every item the repeater itself: *)
(* `item.repeat = repeater`.                                     *)
attach_repeater_shared(items, ns, rh, repeater) ==
  [nodes |-> [n \in 1..Len(ns) |->
                IF (\E j \in 1..Len(items) : items[j] = n) /\ ns[n].repeat = 0
                THEN [ns[n] EXCEPT !.repeat = repeater]
                ELSE ns[n]],
   rheap |-> rh]

attach_repeater(items, ns, rh, repeater) ==
  attach_repeater_from(items, 1, ns, rh, repeater)

----------------------------------------------------------------------------
(* Attributes *)

(* AbbreviationAttribute.__init__; raised: name[0] of an empty name. *)
AbbreviationAttribute(node, st, rh) ==
  LET name0 == IF node.name # <<>> THEN Some(stringify_name(node.name, st, rh)) ELSE None
      named == NonEmpty(name0)
      boolean == named /\ Last(Get(name0)) = "."
      name1 == IF boolean THEN Front(Get(name0)) ELSE IF named THEN Get(name0) ELSE <<>>
      raised == named /\ name1 = <<>>
      implied == named /\ ~raised /\ name1[1] = "!"
      name2 == IF implied THEN Tail(name1) ELSE name1
  IN [name |-> IF named THEN Some(name2) ELSE name0,
      value |-> None,
      value_type |-> IF node.expression THEN "expression" ELSE "raw",
      boolean |-> boolean,
      implied |-> implied,
      raised |-> raised]

(* node.value after convert_attribute: the pops act on the copy          *)
(* `tokens = node.value[:]`, the list of the input keeps every token.    *)
attribute_source(value) == value

(* The tokens convert_attribute leaves of node.value. *)
attribute_tokens(value) ==
  IF is_quote(value[1])
  THEN LET tokens == Tail(value)
       IN IF Len(tokens) # 0 /\ Last(tokens).type = value[1].type
          THEN Front(tokens) ELSE tokens
  ELSE IF is_bracket(value[1], "expression", TRUE)
  THEN LET tokens == Tail(value)
       IN IF tokens # <<>> /\ is_bracket(Last(tokens), "expression", FALSE)
          THEN Front(tokens) ELSE tokens
  ELSE value

attribute_value_type(value, value_type) ==
  IF is_quote(value[1])
  THEN (IF value[1].single THEN "singleQuote" ELSE "doubleQuote")
  ELSE IF is_bracket(value[1], "expression", TRUE) THEN "expression"
  ELSE value_type

convert_attribute(node, st, rh) ==
  LET attr == AbbreviationAttribute(node, st, rh)
      st1 == stringify_all_state(node.name, st)
  IN IF node.value # <<>> /\ ~attr.raised
     THEN [attr EXCEPT
             !.value_type = attribute_value_type(node.value, @),
             !.value = Some(stringify_value(attribute_tokens(node.value), st1, rh))]
     ELSE attr

convert_attribute_state(node, st) ==
  LET st1 == stringify_all_state(node.name, st)
  IN IF node.value # <<>>
     THEN stringify_value_state(attribute_tokens(node.value), st1)
     ELSE st1

RECURSIVE convert_attributes_state(_, _)
(* The state after the attributes of the list were converted in order. *)
convert_attributes_state(attrs, st) ==
  IF attrs = <<>> THEN st
  ELSE convert_attributes_state(Tail(attrs), convert_attribute_state(Head(attrs), st))

RECURSIVE convert_attributes(_, _, _)
(* [convert_attribute(attr, state) for attr in node.attributes] *)
convert_attributes(attrs, st, rh) ==
  IF attrs = <<>> THEN <<>>
  ELSE <<convert_attribute(Head(attrs), st, rh)>>
       \o convert_attributes(Tail(attrs), convert_attribute_state(Head(attrs), st), rh)

(* A flattening condition that forgets the field markers. *)
is_text_only_any_value(elem) ==
  /\ ~NonEmpty(elem.name)
  /\ ~NonEmpty(elem.attributes)
  /\ NonEmpty(elem.value)

(* The flattening condition of convert_element. *)
is_text_only(elem) ==
  /\ ~NonEmpty(elem.name)
  /\ ~NonEmpty(elem.attributes)
  /\ NonEmpty(elem.value)
  /\ ~some_is_field(Get(elem.value))

----------------------------------------------------------------------------
(* The call stack *)

Frame(fn, node, pc) ==
  [fn |-> fn, node |-> node, pc |-> pc, result |-> <<>>, k |-> 1, i |-> 0,
   repeat |-> 0, original |-> 0, elem |-> 0, act |-> 0]

Top == stack[Len(stack)]

Running(fn, pc) ==
  /\ phase = "running"
  /\ stack # <<>>
  /\ Top.fn = fn
  /\ Top.pc = pc

(* The frame of convert_group(node) or convert_element(node). *)
Dispatch(n) ==
  Frame(IF is_group(abbr[n]) THEN "convert_group" ELSE "convert_element", n, "loop")

Call(caller, callee) == Append([stack EXCEPT ![Len(stack)] = caller], callee)

Return == SubSeq(stack, 1, Len(stack) - 1)

(* An exception leaves convert: nothing catches it. *)
Raise(kind) ==
  /\ phase' = "raised"
  /\ exc' = kind
  /\ stack' = <<>>

NoElement == [id |-> 0, elem |-> None, items |-> <<>>]

NoAttribute == TokenAttribute(<<>>, <<>>, FALSE)

NoInsert == [done |-> FALSE, leaf |-> 0, before |-> None, after |-> None, text |-> <<>>]

(* The input as convert received it. *)
NoInput == [abbr |-> <<>>, node_repeat |-> <<>>, rheap |-> <<>>]

(* hist before convert is called; origin and repeat0 run parallel to nodes: *)
(* the input node an output node was made from and its .repeat then.        *)
NoHistory ==
  [placeholder |-> FALSE, implicit_done |-> FALSE, fallback |-> NoInsert,
   heap |-> <<>>, element |-> NoElement, input |-> NoInput,
   origin |-> <<>>, repeat0 |-> <<>>]

Insert(leaf, before, after, text) ==
  [done |-> TRUE, leaf |-> leaf, before |-> before, after |-> after, text |-> text]

----------------------------------------------------------------------------
(* The initial state: convert(abbr, options) is about to be called. *)

RepeatedBefore(labels, j) == Cardinality({m \in 1..j : ~IsNone(labels[m].repeat)})

Init ==
  \E inp \in Inputs, o \in Options :
    /\ abbr = [n \in 1..(Len(inp.shape) + 1) |->
                 [kind |-> IF n = 1 THEN "group" ELSE inp.labels[n - 1].node.kind,
                  name |-> IF n = 1 THEN <<>> ELSE inp.labels[n - 1].node.name,
                  value |-> IF n = 1 THEN <<>> ELSE inp.labels[n - 1].node.value,
                  attributes |-> IF n = 1 THEN <<>> ELSE inp.labels[n - 1].node.attributes,
                  self_close |-> IF n = 1 THEN FALSE ELSE inp.labels[n - 1].node.self_close,
                  elements |-> Elements(inp.shape, n)]]
    /\ options = o
    /\ node_repeat = [n \in 1..(Len(inp.shape) + 1) |->
                        IF n = 1 \/ IsNone(inp.labels[n - 1].repeat) THEN 0
                        ELSE RepeatedBefore(inp.labels, n - 1)]
    /\ rheap = LET reps == {m \in 1..Len(inp.shape) : ~IsNone(inp.labels[m].repeat)}
               IN [r \in 1..Cardinality(reps) |->
                     Get(inp.labels[CHOOSE m \in reps : RepeatedBefore(inp.labels, m) = r].repeat)]
    /\ state = ConvertState(TextNone, None)
    /\ nodes = <<>>
    /\ result = <<>>
    /\ stack = <<>>
    /\ ret = <<>>
    /\ phase = "new"
    /\ exc = ""
    /\ log = <<>>
    /\ hist = NoHistory
    /\ attr_node = NoAttribute
    /\ attr_out = None
    /\ value_tokens = <<>>
    /\ value_out = None

----------------------------------------------------------------------------
(* convert, lines 77-80: the state is built and convert_group(abbr) called *)

Convert ==
  /\ phase = "new"
  /\ state' = ConvertState(options.text, options.max_repeat)
  /\ result' = <<>>
  /\ stack' = <<Frame("convert_group", 1, "loop")>>
  /\ phase' = "running"
  /\ hist' = [hist EXCEPT !.input = [abbr |-> abbr, node_repeat |-> node_repeat,
                                     rheap |-> rheap]]
  /\ UNCHANGED avars
  /\ UNCHANGED <<abbr, options, node_repeat, rheap, nodes, ret, exc, log>>

(* convert, lines 80-89: the children are stored and the text fallback runs *)
ConvertReturn ==
  /\ phase = "running"
  /\ stack = <<>>
  /\ result' = ret
  /\ IF options.text.t # "none" /\ ~state.text_inserted
     THEN IF ret = <<>>
          THEN \* result.children[-1] of an empty list
               /\ Raise("IndexError")
               /\ UNCHANGED <<nodes, hist>>
          ELSE LET deepest == deepest_node(nodes, Last(ret))
                   tx == IF options.text.t = "list" THEN JoinLines(options.text.l)
                         ELSE options.text.s
                   after == insert_text(nodes[deepest].value, tx)
               IN /\ nodes' = [nodes EXCEPT ![deepest].value = after]
                  /\ hist' = [hist EXCEPT
                                !.fallback = Insert(deepest, nodes[deepest].value, after, tx),
                                !.heap = nodes]
                  /\ phase' = "done"
                  /\ UNCHANGED <<exc, stack>>
     ELSE /\ phase' = "done"
          /\ UNCHANGED <<nodes, hist, exc, stack>>
  /\ UNCHANGED avars
  /\ UNCHANGED <<abbr, options, node_repeat, rheap, state, ret, log>>

----------------------------------------------------------------------------
(* convert_group *)

GroupCallChild ==
  /\ Running("convert_group", "loop")
  /\ Top.k <= Len(abbr[Top.node].elements)
  /\ stack' = Call([Top EXCEPT !.pc = "ret"],
                   Frame("convert_statement", abbr[Top.node].elements[Top.k], "enter"))
  /\ UNCHANGED avars
  /\ UNCHANGED <<abbr, options, node_repeat, rheap, state, nodes, result, ret,
                 phase, exc, log, hist>>

GroupChildReturn ==
  /\ Running("convert_group", "ret")
  /\ stack' = [stack EXCEPT ![Len(stack)] =
                 [Top EXCEPT !.result = @ \o ret, !.k = @ + 1, !.pc = "loop"]]
  /\ UNCHANGED avars
  /\ UNCHANGED <<abbr, options, node_repeat, rheap, state, nodes, result, ret,
                 phase, exc, log, hist>>

(* lines 164-167 *)
GroupReturn ==
  /\ Running("convert_group", "loop")
  /\ Top.k > Len(abbr[Top.node].elements)
  /\ LET heaps == IF node_repeat[Top.node] # 0
                  THEN attach_repeater(Top.result, nodes, rheap, node_repeat[Top.node])
                  ELSE [nodes |-> nodes, rheap |-> rheap]
     IN /\ nodes' = heaps.nodes
        /\ rheap' = heaps.rheap
  /\ ret' = Top.result
  /\ stack' = Return
  /\ UNCHANGED avars
  /\ UNCHANGED <<abbr, options, node_repeat, state, result, phase, exc, log, hist>>

----------------------------------------------------------------------------
(* convert_statement *)

Activation(n, original, repeat, count) ==
  [node |-> n,
   repeat |-> repeat,
   implicit |-> rheap[original].implicit,
   authored |-> rheap[original].count,
   count |-> count,
   guard0 |-> state.repeat_guard,
   inserted0 |-> state.inserted,
   depth0 |-> Len(state.repeaters),
   iters |-> 0,
   emitted |-> <<>>,
   forced |-> <<>>,
   placeholder |-> <<>>,
   implicit_done |-> <<>>,
   guards |-> <<>>,
   guard1 |-> None,
   inserted_loop |-> FALSE,
   inserted1 |-> FALSE,
   closed |-> FALSE]

(* lines 95-107: a repeated node; the working clone is pushed *)
StatementEnter ==
  /\ Running("convert_statement", "enter")
  /\ node_repeat[Top.node] # 0
  /\ LET original == node_repeat[Top.node]
         c == clone_repeater(rheap, original)
         count == repeat_count(rheap[original], state.text)
     IN /\ rheap' = [c.rheap EXCEPT ![c.ref].count = count]
        /\ state' = [state EXCEPT !.repeaters = Append(@, c.ref)]
        /\ log' = Append(log, Activation(Top.node, original, c.ref, Get(count)))
        /\ stack' = [stack EXCEPT ![Len(stack)] =
                       [Top EXCEPT !.pc = "loop", !.i = 0, !.repeat = c.ref,
                                   !.original = original, !.act = Len(log) + 1]]
  /\ UNCHANGED avars
  /\ UNCHANGED <<abbr, options, node_repeat, nodes, result, ret, phase, exc, hist>>

(* lines 109-112: one more iteration is started *)
StatementIterate ==
  /\ Running("convert_statement", "loop")
  /\ Top.i < Get(rheap[Top.repeat].count)
  /\ rheap' = [rheap EXCEPT ![Top.repeat].value = Top.i]
  /\ node_repeat' = [node_repeat EXCEPT ![Top.node] = Top.repeat]
  /\ stack' = Call([Top EXCEPT !.pc = "iter"], Dispatch(Top.node))
  /\ UNCHANGED avars
  /\ UNCHANGED <<abbr, options, state, nodes, result, ret, phase, exc, log, hist>>

(* lines 114-129: the iteration's items came back *)
StatementIterReturn ==
  /\ Running("convert_statement", "iter")
  /\ LET items == ret
         repeat == rheap[Top.repeat]
         insert == repeat.implicit /\ ~state.inserted
     IN IF insert /\ items = <<>>
        THEN \* items[-1] of an empty list
             /\ Raise("IndexError")
             /\ UNCHANGED <<nodes, state, log>>
        ELSE LET deepest == deepest_node(nodes, Last(items))
                 text == get_text_value(state.text, Some(repeat.value))
                 after == insert_text(nodes[deepest].value, text)
                 state1 == IF insert THEN get_text_state(state) ELSE state
                 nodes1 == IF insert THEN [nodes EXCEPT ![deepest].value = after]
                           ELSE nodes
                 forced == IF insert
                           THEN Insert(deepest, nodes[deepest].value, after, text)
                           ELSE NoInsert
             IN /\ nodes' = nodes1
                /\ IF IsNone(state.repeat_guard)
                   THEN \* None -= 1
                        /\ Raise("TypeError")
                        /\ state' = state1
                        /\ UNCHANGED log
                   ELSE LET guard == guard_after(Get(state.repeat_guard))
                        IN /\ state' = [state1 EXCEPT !.repeat_guard = Some(guard)]
                           /\ log' = [log EXCEPT
                                ![Top.act].iters = @ + 1,
                                ![Top.act].emitted = Append(@, items),
                                ![Top.act].guards = Append(@, guard),
                                ![Top.act].forced = Append(@, forced),
                                ![Top.act].placeholder = Append(@, hist.placeholder),
                                ![Top.act].implicit_done = Append(@, hist.implicit_done)]
                           /\ stack' = [stack EXCEPT ![Len(stack)] =
                                [Top EXCEPT
                                   !.result = @ \o items,
                                   !.pc = IF guard_break(guard) THEN "break" ELSE "loop",
                                   !.i = IF guard_break(guard) THEN @ ELSE @ + 1]]
                           /\ UNCHANGED <<phase, exc>>
  /\ UNCHANGED avars
  /\ UNCHANGED <<abbr, options, node_repeat, rheap, result, ret, hist>>

(* lines 131-134 and 138: the loop is over *)
StatementExit ==
  /\ \/ Running("convert_statement", "loop") /\ ~(Top.i < Get(rheap[Top.repeat].count))
     \/ Running("convert_statement", "break")
  /\ state' = [state EXCEPT
                 !.repeaters = repeaters_pop(@),
                 !.inserted = inserted_after(rheap[Top.repeat], @)]
  /\ node_repeat' = [node_repeat EXCEPT
                       ![Top.node] = repeat_restored(Top.original, Top.repeat)]
  /\ log' = [log EXCEPT ![Top.act].closed = TRUE,
                         ![Top.act].guard1 = state.repeat_guard,
                         ![Top.act].inserted_loop = state.inserted,
                         ![Top.act].inserted1 =
                            inserted_after(rheap[Top.repeat], state.inserted)]
  /\ hist' = [hist EXCEPT !.implicit_done = @ \/ rheap[Top.repeat].implicit]
  /\ ret' = Top.result
  /\ stack' = Return
  /\ UNCHANGED avars
  /\ UNCHANGED <<abbr, options, rheap, nodes, result, phase, exc>>

(* line 136: a node that is not repeated *)
StatementPlain ==
  /\ Running("convert_statement", "enter")
  /\ node_repeat[Top.node] = 0
  /\ stack' = Call([Top EXCEPT !.pc = "plain"], Dispatch(Top.node))
  /\ UNCHANGED avars
  /\ UNCHANGED <<abbr, options, node_repeat, rheap, state, nodes, result, ret,
                 phase, exc, log, hist>>

StatementPlainReturn ==
  /\ Running("convert_statement", "plain")
  /\ ret' = Top.result \o ret
  /\ stack' = Return
  /\ UNCHANGED avars
  /\ UNCHANGED <<abbr, options, node_repeat, rheap, state, nodes, result,
                 phase, exc, log, hist>>

----------------------------------------------------------------------------
(* convert_element *)

HasPlaceholder(tokens) == \E j \in 1..Len(tokens) : IsPlaceholder(tokens[j])

(* lines 142-143 *)
ElementEnter ==
  /\ Running("convert_element", "loop")
  /\ Top.elem = 0
  /\ LET node == abbr[Top.node]
         snap == node_snapshot(rheap, node_repeat[Top.node])
         elem == [AbbreviationNode(node, state, rheap) EXCEPT !.repeat = snap.ref]
     IN /\ nodes' = Append(nodes, elem)
        /\ rheap' = snap.rheap
        /\ state' = AbbreviationNode_state(node, state)
        /\ hist' = [hist EXCEPT
                      !.placeholder =
                         @ \/ HasPlaceholder(node.name) \/ HasPlaceholder(node.value),
                      !.origin = Append(@, Top.node),
                      !.repeat0 = Append(@, snap.ref)]
        /\ stack' = [stack EXCEPT ![Len(stack)] =
                       [Top EXCEPT !.elem = Len(nodes) + 1, !.result = <<Len(nodes) + 1>>]]
  /\ UNCHANGED avars
  /\ UNCHANGED <<abbr, options, node_repeat, result, ret, phase, exc, log>>

(* lines 145-146 *)
ElementCallChild ==
  /\ Running("convert_element", "loop")
  /\ Top.elem # 0
  /\ Top.k <= Len(abbr[Top.node].elements)
  /\ stack' = Call([Top EXCEPT !.pc = "ret"],
                   Frame("convert_statement", abbr[Top.node].elements[Top.k], "enter"))
  /\ UNCHANGED avars
  /\ UNCHANGED <<abbr, options, node_repeat, rheap, state, nodes, result, ret,
                 phase, exc, log, hist>>

ElementChildReturn ==
  /\ Running("convert_element", "ret")
  /\ nodes' = [nodes EXCEPT ![Top.elem].children = @ \o ret]
  /\ stack' = [stack EXCEPT ![Len(stack)] = [Top EXCEPT !.k = @ + 1, !.pc = "loop"]]
  /\ UNCHANGED avars
  /\ UNCHANGED <<abbr, options, node_repeat, rheap, state, result, ret,
                 phase, exc, log, hist>>

(* The list convert_element returns for the finished node elem. *)
element_result(elem, id) ==
  IF is_text_only(elem) THEN <<id>> \o elem.children ELSE <<id>>

(* lines 148-156 *)
ElementReturn ==
  /\ Running("convert_element", "loop")
  /\ Top.elem # 0
  /\ Top.k > Len(abbr[Top.node].elements)
  /\ LET node == abbr[Top.node]
         attrs == convert_attributes(node.attributes, state, rheap)
         elem == IF node.attributes # <<>>
                 THEN [nodes[Top.elem] EXCEPT !.attributes = Some(attrs)]
                 ELSE nodes[Top.elem]
     IN IF \E j \in 1..Len(attrs) : attrs[j].raised
        THEN /\ Raise("IndexError")
             /\ UNCHANGED <<abbr, nodes, state, ret, hist>>
        ELSE /\ nodes' = [nodes EXCEPT ![Top.elem] = elem]
             /\ abbr' = [abbr EXCEPT ![Top.node].attributes =
                           [j \in 1..Len(@) |->
                              [@[j] EXCEPT !.value = attribute_source(@)]]]
             /\ state' = convert_attributes_state(node.attributes, state)
             /\ ret' = element_result(elem, Top.elem)
             /\ hist' = [hist EXCEPT
                           !.placeholder =
                              @ \/ \E j \in 1..Len(node.attributes) :
                                     \/ HasPlaceholder(node.attributes[j].name)
                                     \/ HasPlaceholder(node.attributes[j].value),
                           !.element = [id |-> Top.elem, elem |-> Some(elem),
                                        items |-> element_result(elem, Top.elem)]]
             /\ stack' = Return
             /\ UNCHANGED <<phase, exc>>
  /\ UNCHANGED avars
  /\ UNCHANGED <<options, node_repeat, rheap, result, log>>

----------------------------------------------------------------------------
Next ==
  \/ Convert
  \/ ConvertReturn
  \/ GroupCallChild
  \/ GroupChildReturn
  \/ GroupReturn
  \/ StatementEnter
  \/ StatementIterate
  \/ StatementIterReturn
  \/ StatementExit
  \/ StatementPlain
  \/ StatementPlainReturn
  \/ ElementEnter
  \/ ElementCallChild
  \/ ElementChildReturn
  \/ ElementReturn

Spec == Init /\ [][Next]_vars

----------------------------------------------------------------------------
(* convert_attribute on its own: the attribute is drawn from the bounded   *)
(* set AttributeInputs and converted in one step.                          *)

(* node.value of an attribute has at most MaxTokens tokens. *)
MaxTokens == 3

ValueTokens ==
  {Quote(TRUE), Quote(FALSE), Bracket("expression", TRUE), Bracket("expression", FALSE),
   Literal(<<"v">>), Field(Some(1), <<>>)}

AttributeValues == UNION {[1..m -> ValueTokens] : m \in 0..MaxTokens}

AttributeNames ==
  {<<>>} \cup
  {<<Literal(s)>> : s \in {<<"a">>, <<"a", ".">>, <<"!", "a">>, <<"!", "a", ".">>,
                           <<".">>, <<"!">>, <<"!", ".">>}}

AttributeInputs ==
  {TokenAttribute(n, v, e) : n \in AttributeNames, v \in AttributeValues, e \in BOOLEAN}

InitAttr ==
  /\ attr_node \in AttributeInputs
  /\ attr_out = None
  /\ value_tokens = <<>>
  /\ value_out = None
  /\ abbr = <<>>
  /\ options = [text |-> TextNone, max_repeat |-> None]
  /\ node_repeat = <<>>
  /\ rheap = <<>>
  /\ state = ConvertState(TextNone, None)
  /\ nodes = <<>>
  /\ result = <<>>
  /\ stack = <<>>
  /\ ret = <<>>
  /\ phase = "attribute"
  /\ exc = ""
  /\ log = <<>>
  /\ hist = NoHistory

(* lines 170-195 *)
ConvertAttribute ==
  /\ phase = "attribute"
  /\ IsNone(attr_out)
  /\ LET attr == convert_attribute(attr_node, state, rheap)
     IN IF attr.raised
        THEN \* self.name[0] of an empty name
             /\ Raise("IndexError")
             /\ UNCHANGED <<attr_out, state>>
        ELSE /\ attr_out' = Some(attr)
             /\ state' = convert_attribute_state(attr_node, state)
             /\ UNCHANGED <<phase, exc, stack>>
  /\ UNCHANGED <<abbr, options, node_repeat, rheap, nodes, result, ret,
                 log, hist, attr_node, value_tokens, value_out>>

NextAttr == ConvertAttribute

SpecAttr == InitAttr /\ [][NextAttr]_vars

----------------------------------------------------------------------------
(* stringify_value on its own: the token list is drawn from the bounded    *)
(* set TokenLists and converted in one step, under a state with no text or *)
(* with the text "w" and no repeater.                                      *)

StringTokens ==
  {Literal(<<"v">>), RepeaterPlaceholder, Field(None, <<"n">>),
   Field(Some(1), <<>>), Field(Some(2), <<>>)}

(* Token lists of at most MaxTokens tokens. *)
TokenLists == UNION {[1..m -> StringTokens] : m \in 0..MaxTokens}

InitValue ==
  /\ value_tokens \in TokenLists
  /\ value_out = None
  /\ options \in [text : {TextNone, TextStr(<<"w">>)}, max_repeat : {Some(DefaultMaxRepeat)}]
  /\ state = ConvertState(options.text, options.max_repeat)
  /\ attr_node = NoAttribute
  /\ attr_out = None
  /\ abbr = <<>>
  /\ node_repeat = <<>>
  /\ rheap = <<>>
  /\ nodes = <<>>
  /\ result = <<>>
  /\ stack = <<>>
  /\ ret = <<>>
  /\ phase = "value"
  /\ exc = ""
  /\ log = <<>>
  /\ hist = NoHistory

(* lines 203-225 *)
StringifyValue ==
  /\ phase = "value"
  /\ IsNone(value_out)
  /\ value_out' = Some(stringify_value(value_tokens, state, rheap))
  /\ state' = stringify_value_state(value_tokens, state)
  /\ UNCHANGED <<abbr, options, node_repeat, rheap, nodes, result, stack, ret,
                 phase, exc, log, hist, attr_node, attr_out, value_tokens>>

NextValue == StringifyValue

SpecValue == InitValue /\ [][NextValue]_vars

----------------------------------------------------------------------------
(* What the claims speak about *)

RECURSIVE SumIters(_)
SumIters(l) == IF l = <<>> THEN 0 ELSE Head(l).iters + SumIters(Tail(l))

(* The loop iterations emitted so far by all repeated statements. *)
TotalIterations == SumIters(log)

HasMaxRepeat == ~IsNone(options.max_repeat)

RECURSIVE HasRepeatedDescendant(_)
HasRepeatedDescendant(n) ==
  \E j \in 1..Len(abbr[n].elements) :
    \/ node_repeat[abbr[n].elements[j]] # 0
    \/ HasRepeatedDescendant(abbr[n].elements[j])

RECURSIVE LastLeaf(_, _)
(* The leaf reached from node n by following the last child. *)
LastLeaf(ns, n) ==
  IF Len(ns[n].children) = 0 THEN n
  ELSE LastLeaf(ns, ns[n].children[Len(ns[n].children)])

Suffix(s, t) == Len(s) >= Len(t) /\ SubSeq(s, Len(s) - Len(t) + 1, Len(s)) = t

(* The value with text appended: to its last segment when that is a str, *)
(* as a new segment otherwise.                                           *)
Appended(value, text) ==
  IF ~IsNone(value) /\ Get(value) # <<>> /\ Last(Get(value)).kind = "str"
  THEN Some(Front(Get(value)) \o <<StrSeg(Last(Get(value)).str \o text)>>)
  ELSE Some((IF IsNone(value) THEN <<>> ELSE Get(value)) \o <<StrSeg(text)>>)

FullText ==
  IF options.text.t = "list" THEN JoinLines(options.text.l) ELSE options.text.s

(* get_text was called: by a rendered placeholder or by a forced insertion. *)
GetTextCalled ==
  \/ hist.placeholder
  \/ \E a \in 1..Len(log) : \E i \in 1..Len(log[a].forced) : log[a].forced[i].done

----------------------------------------------------------------------------
(* C1, as stated: with max_repeat = G, all repeated statements of one      *)
(* conversion together emit at most G loop iterations.                     *)
C1_GlobalCeiling ==
  HasMaxRepeat => TotalIterations <= Get(options.max_repeat)

(* C1, amended: the guard is shared but every activation still emits one   *)
(* iteration: an activation entered with guard g emits at most max(1, g)   *)
(* iterations, A activations emit at most G + A - 1 in total, and a single *)
(* repeater with count c >= 1 emits exactly min(c, G).                     *)
C1_GuardCeiling ==
  HasMaxRepeat =>
    /\ \A a \in 1..Len(log) : log[a].iters <= Max(1, Get(log[a].guard0))
    /\ Len(log) >= 1 => TotalIterations <= Get(options.max_repeat) + Len(log) - 1
    /\ (phase = "done" /\ Len(log) = 1 /\ log[1].count >= 1) =>
          log[1].iters = Min(log[1].count, Get(options.max_repeat))

(* Two repeaters have run under the largest guard and overshot it. *)
C1_Witness ==
  /\ phase = "done"
  /\ options.max_repeat = Some(MaxGuard)
  /\ Len(log) = 2
  /\ log[1].count > MaxGuard
  /\ log[1].iters = MaxGuard
  /\ TotalIterations = MaxGuard + 1

----------------------------------------------------------------------------
(* An activation of an explicitly repeated element with count N >= 1 that  *)
(* was entered with a guard of at least N and has returned.                *)
ExplicitElement(a) ==
  /\ log[a].closed
  /\ ~log[a].implicit
  /\ abbr[log[a].node].kind = "element"
  /\ ~IsNone(log[a].authored)
  /\ Get(log[a].authored) >= 1
  /\ ~IsNone(log[a].guard0)
  /\ Get(log[a].guard0) >= Get(log[a].authored)

(* N iterations were emitted and the node of iteration i shows (i, N). *)
ExactlyUnrolled(a) ==
  LET N == Get(log[a].authored)
  IN /\ log[a].iters = N
     /\ Len(log[a].emitted) = N
     /\ \A i \in 0..(N - 1) :
          LET id == log[a].emitted[i + 1][1]
          IN /\ nodes[id].repeat # 0
             /\ rheap[nodes[id].repeat].value = i
             /\ rheap[nodes[id].repeat].count = Some(N)

(* C2, as stated: an explicit repeat of N >= 1 entered with a guard >= N   *)
(* emits exactly N iterations whose nodes keep the snapshots (i, N).       *)
C2_ExplicitRepeat ==
  \A a \in 1..Len(log) : ExplicitElement(a) => ExactlyUnrolled(a)

(* C2, amended: the same for an element none of whose descendants is       *)
(* repeated (a repeated descendant draws on the same guard).               *)
C2_ExplicitRepeatAlone ==
  \A a \in 1..Len(log) :
    (ExplicitElement(a) /\ ~HasRepeatedDescendant(log[a].node)) => ExactlyUnrolled(a)

(* An element with a child was unrolled at least twice. *)
C2_Witness ==
  /\ phase = "done"
  /\ \E a \in 1..Len(log) :
       /\ ExplicitElement(a)
       /\ ~HasRepeatedDescendant(log[a].node)
       /\ abbr[log[a].node].elements # <<>>
       /\ Get(log[a].authored) >= 2
       /\ log[a].iters = Get(log[a].authored)

----------------------------------------------------------------------------
(* An activation of an implicit repeater under a text list. *)
ImplicitList(a) == log[a].implicit /\ options.text.t = "list"

(* The guard was not exhausted when the activation was left. *)
GuardLeft(a) == ~IsNone(log[a].guard1) /\ Get(log[a].guard1) > 0

(* Iteration i (from 1) put text[i] into the last leaf of its last node. *)
TextInserted(a, i) ==
  LET f == log[a].forced[i]
  IN /\ f.done
     /\ f.leaf = LastLeaf(nodes, Last(log[a].emitted[i]))
     /\ f.text = options.text.l[i]
     /\ ~IsNone(f.after)
     /\ Last(Get(f.after)).kind = "str"
     /\ Suffix(Last(Get(f.after)).str, options.text.l[i])
     /\ nodes[f.leaf].value = f.after

(* C3, as stated: every implicit repeater under a text list of M lines is  *)
(* unrolled M times and every iteration before which no placeholder was    *)
(* rendered has its line inserted, nested and following repeaters too.     *)
C3_ImplicitText ==
  \A a \in 1..Len(log) :
    ImplicitList(a) =>
      /\ (log[a].closed /\ GuardLeft(a)) => log[a].iters = Len(options.text.l)
      /\ \A i \in 1..log[a].iters : ~log[a].placeholder[i] => TextInserted(a, i)

(* C3, amended: the line is inserted exactly in the iterations before      *)
(* which no placeholder was rendered and no implicit repeated statement    *)
(* had finished; all other iterations insert nothing.                      *)
C3_ImplicitTextOnce ==
  \A a \in 1..Len(log) :
    ImplicitList(a) =>
      /\ (log[a].closed /\ GuardLeft(a)) => log[a].iters = Len(options.text.l)
      /\ \A i \in 1..log[a].iters :
           IF ~log[a].placeholder[i] /\ ~log[a].implicit_done[i]
           THEN TextInserted(a, i)
           ELSE ~log[a].forced[i].done

(* Two implicit repeaters ran over two lines: the first got its lines, *)
(* the second got none.                                                *)
C3_Witness ==
  /\ phase = "done"
  /\ ~hist.placeholder
  /\ Len(options.text.l) >= 2
  /\ \E a, b \in 1..Len(log) :
       /\ a # b
       /\ ImplicitList(a) /\ ImplicitList(b)
       /\ log[a].iters = Len(options.text.l) /\ log[b].iters = Len(options.text.l)
       /\ \A i \in 1..log[a].iters : log[a].forced[i].done
       /\ \A i \in 1..log[b].iters : ~log[b].forced[i].done

----------------------------------------------------------------------------
(* C4: when text is given and get_text was never called, convert has put   *)
(* the full text into the last leaf under the last top-level node, onto    *)
(* its last str segment or as a new segment, and changed nothing else.     *)
C4_TextFallback ==
  (phase = "done" /\ options.text.t # "none" /\ ~GetTextCalled) =>
    /\ hist.fallback.done
    /\ result # <<>>
    /\ hist.fallback.leaf = LastLeaf(hist.heap, Last(result))
    /\ nodes = [hist.heap EXCEPT ![hist.fallback.leaf].value = Appended(@, FullText)]

(* The text went into a leaf below the last top-level node, after a field. *)
C4_Witness ==
  /\ phase = "done"
  /\ hist.fallback.done
  /\ hist.fallback.leaf # Last(result)
  /\ ~IsNone(hist.fallback.before)
  /\ Last(Get(hist.fallback.before)).kind = "field"
  /\ Len(Get(nodes[hist.fallback.leaf].value)) = 2

----------------------------------------------------------------------------
(* C5: convert returns an output root for every input; it never raises.    *)
C5_NeverRaises == phase # "raised"

----------------------------------------------------------------------------
(* C6: convert_element returns [node] when the node has a name, or         *)
(* attributes, or no value, or a field marker in its value, and            *)
(* [node] + node.children otherwise.                                       *)
C6_Flattening ==
  hist.element.id # 0 =>
    LET e == Get(hist.element.elem)
        single == \/ (~IsNone(e.name) /\ Get(e.name) # <<>>)
                  \/ (~IsNone(e.attributes) /\ Get(e.attributes) # <<>>)
                  \/ IsNone(e.value)
                  \/ Get(e.value) = <<>>
                  \/ \E j \in 1..Len(Get(e.value)) : Get(e.value)[j].kind = "field"
    IN /\ single => hist.element.items = <<hist.element.id>>
       /\ ~single =>
            /\ hist.element.items = <<hist.element.id>> \o e.children
            /\ Len(hist.element.items) = 1 + Len(e.children)

(* A text-only wrapper with a child was flattened. *)
C6_Witness ==
  /\ hist.element.id # 0
  /\ Len(hist.element.items) >= 2
  /\ Get(hist.element.elem).children # <<>>

----------------------------------------------------------------------------
(* The places a node is held at: in the root's list or in a children list. *)
Holders(id) ==
  {<<0, j>> : j \in {j \in 1..Len(result) : result[j] = id}}
  \cup UNION {{<<m, j>> : j \in {j \in 1..Len(nodes[m].children) : nodes[m].children[j] = id}} :
                m \in 1..Len(nodes)}

(* C7: in the returned tree every output node is held by exactly one       *)
(* children list, at one place.                                            *)
C7_NoSharing ==
  phase = "done" => \A id \in 1..Len(nodes) : Cardinality(Holders(id)) = 1

----------------------------------------------------------------------------
(* C8: without max_repeat in the options the repeat guard starts at        *)
(* 1,000,000 and a repeated statement is unrolled without error.           *)
C8_DefaultMaxRepeat ==
  ~HasMaxRepeat =>
    /\ (phase = "running" /\ log = <<>>) => state.repeat_guard = Some(DefaultMaxRepeat)
    /\ exc # "TypeError"

----------------------------------------------------------------------------
(* C9: a repeated statement that is not implicit under a text list and     *)
(* whose authored count is absent, zero or negative emits one iteration.   *)
C9_CountCoerced ==
  \A a \in 1..Len(log) :
    (/\ log[a].closed
     /\ ~ImplicitList(a)
     /\ (IsNone(log[a].authored) \/ Get(log[a].authored) <= 0))
    => log[a].iters = 1

----------------------------------------------------------------------------
(* The tokens C10 keeps of an attribute value: the opening quote goes, and *)
(* the last token too if it is a quote of the same kind; likewise the      *)
(* expression brackets.                                                    *)
NormalizedTokens(value) ==
  IF value[1].type = "Quote"
  THEN LET rest == Tail(value)
       IN IF /\ rest # <<>>
             /\ Last(rest).type = "Quote"
             /\ Last(rest).single = value[1].single
          THEN Front(rest) ELSE rest
  ELSE IF value[1].type = "Bracket" /\ value[1].context = "expression" /\ value[1].open
  THEN LET rest == Tail(value)
       IN IF /\ rest # <<>>
             /\ Last(rest).type = "Bracket"
             /\ Last(rest).context = "expression"
             /\ ~Last(rest).open
          THEN Front(rest) ELSE rest
  ELSE value

NormalizedType(node) ==
  IF node.value[1].type = "Quote"
  THEN (IF node.value[1].single THEN "singleQuote" ELSE "doubleQuote")
  ELSE IF node.value[1].type = "Bracket" /\ node.value[1].context = "expression"
          /\ node.value[1].open
  THEN "expression"
  ELSE IF node.expression THEN "expression" ELSE "raw"

(* C10: convert_attribute removes the opening quote and a closing quote of *)
(* the same kind (or the expression brackets), keeps every other token in  *)
(* order and sets value_type accordingly.                                  *)
C10_AttributeValue ==
  (~IsNone(attr_out) /\ attr_node.value # <<>>) =>
    /\ Get(attr_out).value_type = NormalizedType(attr_node)
    /\ Get(attr_out).value =
         Some(stringify_value(NormalizedTokens(attr_node.value),
                              ConvertState(TextNone, None), <<>>))

----------------------------------------------------------------------------
(* The name C11 expects of a rendered name: a trailing "." goes first,     *)
(* then a leading "!" of what is left.                                     *)
NormalizedName(name) ==
  LET boolean == name # <<>> /\ Last(name) = "."
      rest == IF boolean THEN Front(name) ELSE name
      implied == rest # <<>> /\ rest[1] = "!"
  IN [name |-> IF implied THEN Tail(rest) ELSE rest,
      boolean |-> boolean,
      implied |-> implied]

(* C11: for every rendered attribute name of length >= 1 the normalizer    *)
(* completes without error, strips a trailing "." (boolean) and then a     *)
(* leading "!" (implied), and leaves every other name unchanged.           *)
C11_NameNormalized ==
  attr_node.name # <<>> =>
    /\ phase # "raised"
    /\ ~IsNone(attr_out) =>
         LET expected == NormalizedName(
                           stringify_name(attr_node.name, ConvertState(TextNone, None), <<>>))
         IN /\ Get(attr_out).name = Some(expected.name)
            /\ Get(attr_out).boolean = expected.boolean
            /\ Get(attr_out).implied = expected.implied

----------------------------------------------------------------------------
Live == phase \in {"running", "done"}

(* No iteration of activation a force-inserted text. *)
NothingForced(a) == \A i \in 1..Len(log[a].forced) : ~log[a].forced[i].done

(* C12, as stated: when a repeated statement is left, state.inserted is    *)
(* back at the value it had when the statement was entered.                *)
C12_InsertedScoped ==
  \A a \in 1..Len(log) : log[a].closed => log[a].inserted1 = log[a].inserted0

(* C12, amended: state.inserted is one flag of the whole conversion: it is *)
(* true exactly when a placeholder was rendered or an implicit repeated    *)
(* statement has returned; leaving a repeated statement keeps what the     *)
(* loop left, or sets it when the repeater is implicit, and an implicit    *)
(* repeater entered with the flag set inserts nothing.                     *)
C12_InsertedShared ==
  /\ Live => state.inserted = (hist.placeholder \/ hist.implicit_done)
  /\ \A a \in 1..Len(log) :
       /\ log[a].closed =>
            log[a].inserted1 = (log[a].implicit \/ log[a].inserted_loop)
       /\ (log[a].implicit /\ log[a].inserted0) => NothingForced(a)

(* Of two sibling implicit repeated statements the first inserted its text *)
(* and set the flag, the second was entered with the flag set and inserted *)
(* nothing.                                                                *)
C12_Witness ==
  /\ phase = "done"
  /\ \E a, b \in 1..Len(log) :
       /\ a < b
       /\ log[a].implicit /\ log[b].implicit
       /\ log[a].depth0 = log[b].depth0
       /\ ~log[a].inserted0 /\ log[a].inserted1
       /\ log[a].iters >= 1 /\ ~NothingForced(a)
       /\ log[b].inserted0
       /\ log[b].iters >= 1 /\ NothingForced(b)

----------------------------------------------------------------------------
(* What C13 says of implicit repeated statements: the flag is set when one *)
(* returns, stays set, and no later iteration inserts text.                *)
ImplicitSets ==
  /\ \A a \in 1..Len(log) : (log[a].closed /\ log[a].implicit) => log[a].inserted1
  /\ (Live /\ hist.implicit_done) => state.inserted
  /\ \A a \in 1..Len(log) : \A i \in 1..Len(log[a].forced) :
       log[a].implicit_done[i] => ~log[a].forced[i].done

(* C13, as stated: an implicit repeated statement sets state.inserted for  *)
(* the rest of the conversion, also when its count was 0, and an explicit  *)
(* repeated statement returns with the flag it was entered with.           *)
C13_ImplicitSetsInserted ==
  /\ ImplicitSets
  /\ \A a \in 1..Len(log) :
       (log[a].closed /\ ~log[a].implicit) => log[a].inserted1 = log[a].inserted0

(* C13, amended: the same, but an explicit repeated statement returns with *)
(* the flag as its loop left it (it does not set the flag itself).         *)
C13_ExplicitKeepsInserted ==
  /\ ImplicitSets
  /\ \A a \in 1..Len(log) :
       (log[a].closed /\ ~log[a].implicit) => log[a].inserted1 = log[a].inserted_loop

(* An implicit repeater under an empty text list never ran its loop and    *)
(* set the flag, and an explicit one returned with a flag its body set.    *)
C13_Witness ==
  /\ phase = "done"
  /\ \E a \in 1..Len(log) :
       /\ log[a].implicit /\ log[a].closed
       /\ log[a].count = 0 /\ log[a].iters = 0
       /\ ~log[a].inserted0 /\ log[a].inserted1
  /\ \E b \in 1..Len(log) :
       /\ ~log[b].implicit /\ log[b].closed
       /\ ~log[b].inserted0 /\ log[b].inserted1

----------------------------------------------------------------------------
(* C14: the repeat guard goes down by exactly 1 per executed iteration and *)
(* is tested after the iteration's items were appended: a repeated         *)
(* statement with a computed count >= 1 emits at least one iteration, and  *)
(* exactly one when the guard is <= 0 on entry or after its first          *)
(* iteration.                                                              *)
C14_GuardAfterEmission ==
  /\ (HasMaxRepeat /\ Live) =>
       state.repeat_guard = Some(Get(options.max_repeat) - TotalIterations)
  /\ \A a \in 1..Len(log) :
       /\ Len(log[a].emitted) = log[a].iters
       /\ Len(log[a].guards) = log[a].iters
       /\ \A i \in 1..log[a].iters :
            log[a].guards[i] <= Get(log[a].guard0) - i
       /\ (log[a].closed /\ log[a].count >= 1) =>
            /\ log[a].iters >= 1
            /\ (Get(log[a].guard0) <= 0 \/ log[a].guards[1] <= 0) => log[a].iters = 1

(* A repeated statement was entered with the guard used up, had more than *)
(* one iteration to make and made one.                                    *)
C14_Witness ==
  /\ phase = "done"
  /\ \E a \in 1..Len(log) :
       /\ log[a].closed
       /\ log[a].count >= 2
       /\ Get(log[a].guard0) <= 0
       /\ log[a].iters = 1
       /\ log[a].guards[1] < 0

----------------------------------------------------------------------------
(* A convert_statement frame whose repeated statement is being unrolled. *)
Unrolling(frame) ==
  frame.fn = "convert_statement" /\ frame.pc \in {"loop", "iter", "break"}

RECURSIVE ActiveRepeats(_)
(* The working repeaters of the statements being unrolled, outermost first. *)
ActiveRepeats(frames) ==
  IF frames = <<>> THEN <<>>
  ELSE (IF Unrolling(Head(frames)) THEN <<Head(frames).repeat>> ELSE <<>>)
       \o ActiveRepeats(Tail(frames))

(* C15: state.repeaters holds exactly the contexts of the repeated         *)
(* statements being unrolled, innermost last, each with the index of its   *)
(* current iteration, and is empty again when convert has returned.        *)
C15_StackDiscipline ==
  /\ phase = "running" =>
       /\ state.repeaters = ActiveRepeats(stack)
       /\ \A j \in 1..Len(stack) :
            (Unrolling(stack[j]) /\ stack[j].pc = "iter") =>
               rheap[stack[j].repeat].value = stack[j].i
  /\ phase = "done" => state.repeaters = <<>>

(* Two nested repeaters are on the stack and the guard has just cut the   *)
(* inner loop short.                                                      *)
C15_Witness ==
  /\ Running("convert_statement", "break")
  /\ Len(state.repeaters) = 2
  /\ Top.i + 1 < Get(rheap[Top.repeat].count)

----------------------------------------------------------------------------
(* C16: when convert has returned, every input node has the repeat object  *)
(* it had before, with the same count, index and implicit flag, and no     *)
(* element, attribute or value token list of the input has changed.        *)
C16_InputUnchanged ==
  phase = "done" =>
    /\ abbr = hist.input.abbr
    /\ node_repeat = hist.input.node_repeat
    /\ \A r \in 1..Len(hist.input.rheap) : rheap[r] = hist.input.rheap[r]

(* A repeated element with a quoted attribute value was converted and the *)
(* guard cut its loop short.                                              *)
C16_Witness ==
  /\ phase = "done"
  /\ \E a \in 1..Len(log) :
       /\ log[a].closed
       /\ log[a].iters >= 1
       /\ log[a].iters < log[a].count
       /\ abbr[log[a].node].attributes # <<>>
       /\ node_repeat[log[a].node] # log[a].repeat

----------------------------------------------------------------------------
(* The output nodes activation a has emitted, over all its iterations. *)
EmittedBy(a) ==
  UNION {{log[a].emitted[i][k] : k \in 1..Len(log[a].emitted[i])} :
           i \in 1..Len(log[a].emitted)}

(* C17: of a repeated group, every node of iteration i that was made       *)
(* without repeat metadata has a Repeater of its own showing index i, the  *)
(* computed count and the group's implicit flag; it is neither the loop's  *)
(* working repeater nor another node's; a node made with repeat metadata   *)
(* keeps it.                                                               *)
C17_GroupRepeater ==
  \A a \in 1..Len(log) :
    is_group(abbr[log[a].node]) =>
      \A i \in 1..Len(log[a].emitted) : \A k \in 1..Len(log[a].emitted[i]) :
        LET id == log[a].emitted[i][k]
        IN IF hist.repeat0[id] = 0
           THEN /\ nodes[id].repeat # 0
                /\ rheap[nodes[id].repeat] =
                     Repeater(Some(log[a].count), i - 1, log[a].implicit)
                /\ nodes[id].repeat # log[a].repeat
                /\ \A other \in EmittedBy(a) \ {id} :
                     nodes[other].repeat # nodes[id].repeat
           ELSE nodes[id].repeat = hist.repeat0[id]

(* A repeated group of a plain and a repeated element was unrolled twice. *)
C17_Witness ==
  /\ phase = "done"
  /\ \E a \in 1..Len(log) :
       /\ is_group(abbr[log[a].node])
       /\ log[a].closed
       /\ log[a].iters = 2
       /\ \E id \in EmittedBy(a) : hist.repeat0[id] = 0
       /\ \E id \in EmittedBy(a) : hist.repeat0[id] # 0

----------------------------------------------------------------------------
RECURSIVE Fields(_)
(* The field tokens of a token list, as segments, in order. *)
Fields(tokens) ==
  IF tokens = <<>> THEN <<>>
  ELSE (IF is_field(Head(tokens)) THEN <<FieldSeg(Head(tokens))>> ELSE <<>>)
       \o Fields(Tail(tokens))

IsFieldSeg(seg) == seg.kind = "field"

RECURSIVE Runs(_, _, _)
(* The segments C18 expects: the renderings of a run of non-field tokens   *)
(* are concatenated into str and flushed, if not empty, at a field and at  *)
(* the end.                                                                *)
Runs(tokens, str, st) ==
  IF tokens = <<>> THEN (IF str # <<>> THEN <<StrSeg(str)>> ELSE <<>>)
  ELSE IF is_field(Head(tokens))
       THEN (IF str # <<>> THEN <<StrSeg(str)>> ELSE <<>>)
            \o <<FieldSeg(Head(tokens))>> \o Runs(Tail(tokens), <<>>, st)
       ELSE Runs(Tail(tokens), str \o stringify(Head(tokens), st, <<>>), st)

(* C18: stringify_value keeps every field with an index as a segment of    *)
(* its own, in order, and turns every run of other tokens into one str     *)
(* segment of their renderings, flushed only if not empty: no two str      *)
(* segments are adjacent and no str segment is empty.                      *)
C18_ValueStructure ==
  ~IsNone(value_out) =>
    LET out == Get(value_out)
    IN /\ SelectSeq(out, IsFieldSeg) = Fields(value_tokens)
       /\ out = Runs(value_tokens, <<>>, ConvertState(options.text, options.max_repeat))
       /\ \A j \in 1..(Len(out) - 1) : ~(out[j].kind = "str" /\ out[j + 1].kind = "str")
       /\ \A j \in 1..Len(out) : out[j].kind = "str" => out[j].str # <<>>

----------------------------------------------------------------------------
(* Some iteration of an implicit repeater force-inserted its text. *)
ForcedInsertion == \E a \in 1..Len(log) : ~NothingForced(a)

(* C19: a forced insertion by an implicit repeater sets the text-consumed  *)
(* flag, and then the fallback of convert inserts nothing: the text is     *)
(* never placed by both.                                                   *)
C19_TextPlacedOnce ==
  /\ (Live /\ ForcedInsertion) => state.text_inserted
  /\ ~(ForcedInsertion /\ hist.fallback.done)

(* An implicit repeater placed the lines of the text and convert returned *)
(* without the fallback.                                                  *)
C19_Witness ==
  /\ phase = "done"
  /\ options.text.t = "list"
  /\ ForcedInsertion
  /\ ~hist.placeholder
  /\ ~hist.fallback.done

====
